---- MODULE Spec2Model ----
(***************************************************************************)
(* Model of BinCreatorApp (src/main.py): the reconciliation of a root      *)
(* folder on disk with the bins and clips of the DaVinci Resolve media     *)
(* pool.                                                                   *)
(*                                                                         *)
(* Strings are sequences of tokens.  A token is a maximal run of digits    *)
(* ("1", "10", "2024"), or a run of non-digit characters.  Three           *)
(* conventions keep the tokenisation of a string unique: an "L" that       *)
(* directly precedes a digit run is a token of its own, a file extension   *)
(* starts a token (".mov", ".mp" followed by "4"), and white space at the  *)
(* start or the end of a folder name is the token " ".  A date of the      *)
(* form YYYY-MM-DD in the root folder's name is one token.                 *)
(***************************************************************************)
EXTENDS Integers, Sequences, FiniteSets, Bags, TLC

\* ---------------------------------------------------------------- bounds

\* the largest number of subfolders in the root folder
MaxSubs == 2
\* the largest number of times the user starts create_media_bins
MaxRuns == 2
\* the largest number of calls the library refuses (AddSubFolder or ImportMedia failing)
MaxRefusals == 1

\* ------------------------------------------------------ tokens and parsing

\* int(): the value of a digit run
IntOf == ("0" :> 0) @@ ("1" :> 1) @@ ("2" :> 2) @@ ("4" :> 4) @@ ("10" :> 10) @@ ("22" :> 22) @@ ("2024" :> 2024)

\* \d+ : the token is a run of digits
IsDigits(t) == t \in DOMAIN IntOf

\* the number of characters of a digit run
Width(t) == IF IntOf[t] >= 1000 THEN 4 ELSE IF t \in {"10", "22"} THEN 2 ELSE 1

\* str.lower() on one token
LowerTok(t) == IF t = ".MP" THEN ".mp" ELSE IF t = ".MOV" THEN ".mov" ELSE IF t = "GOPR" THEN "gopr" ELSE t

\* str.lower()
Lower(s) == [i \in 1..Len(s) |-> LowerTok(s[i])]

\* str.endswith(suffix)
EndsWith(s, suffix) == Len(s) >= Len(suffix) /\ SubSeq(s, Len(s) - Len(suffix) + 1, Len(s)) = suffix

\* the tuple of supported video formats
VIDEO_EXTENSIONS == {<<".mp", "4">>, <<".mov">>, <<".mxf">>, <<".avi">>}

\* entry.name.lower().endswith(VIDEO_EXTENSIONS)
IsVideoName(name) == \E ext \in VIDEO_EXTENSIONS : EndsWith(Lower(name), ext)

\* \d{4}-\d{2}-\d{2} : the tokens that are a date of that shape
IsDateToken(t) == t \in {"2024-11-22", "2026-11-05"}

\* re.search(DATE_PATTERN, root_folder_name); group(0) if it matched, else today's date
date_prefix_of(root_folder_name, today) ==
    LET hits == {i \in 1..Len(root_folder_name) : IsDateToken(root_folder_name[i])}
    IN  IF hits = {} THEN today
        ELSE root_folder_name[CHOOSE i \in hits : \A j \in hits : i <= j]

\* the positions at which \d{1,2}/\d{1,2}/\d{4} matches (the first digit run may be
\* the tail of a longer one, the last the head of a longer one)
FolderDateHits(s) ==
    {i \in 1..(Len(s) - 4) :
        /\ IsDigits(s[i]) /\ s[i + 1] = "/"
        /\ IsDigits(s[i + 2]) /\ Width(s[i + 2]) <= 2 /\ s[i + 3] = "/"
        /\ IsDigits(s[i + 4]) /\ Width(s[i + 4]) >= 4}

\* str.strip(): leading and trailing white space removed
RECURSIVE Strip(_)
Strip(s) ==
    IF s = <<>> THEN s
    ELSE IF Head(s) = " " THEN Strip(Tail(s))
    ELSE IF s[Len(s)] = " " THEN Strip(SubSeq(s, 1, Len(s) - 1))
    ELSE s

\* re.sub(FOLDER_DATE_PATTERN, "", folder_name).strip()
clean_folder_name(folder_name) ==
    LET hits == FolderDateHits(folder_name)
        cut  == IF hits = {} THEN Len(folder_name)
                ELSE (CHOOSE i \in hits : \A j \in hits : i <= j) - 1
    IN  Strip(SubSeq(folder_name, 1, cut))

\* f"{date_prefix} - {folder_name}"
bin_name_of(date_prefix, folder_name) == <<date_prefix, " - ">> \o folder_name

\* re.search(r"L(\d+)$", bin_name): int(group(1)) if it matched, else None
get_load_number_from_bin(bin_name) ==
    LET n == Len(bin_name)
    IN  IF n >= 2 /\ IsDigits(bin_name[n]) /\ bin_name[n - 1] = "L"
        THEN [matched |-> TRUE, value |-> IntOf[bin_name[n]]]
        ELSE [matched |-> FALSE, value |-> 0]

\* "not load_number" written as "load_number is None or load_number <= 1"
NotLoadNumber_off_by_one(ln) == ~ln.matched \/ ln.value <= 1

\* Python's "not load_number": None and 0 are both falsy
NotLoadNumber(ln) == ~ln.matched \/ ln.value = 0

\* re.findall(r'\d+', entry.name) as integers
RECURSIVE NumbersIn(_)
NumbersIn(name) ==
    IF name = <<>> THEN <<>>
    ELSE (IF IsDigits(Head(name)) THEN <<IntOf[Head(name)]>> ELSE <<>>) \o NumbersIn(Tail(name))

\* max(numbers)
MaxOf(numbers) ==
    CHOOSE m \in {numbers[i] : i \in 1..Len(numbers)} : \A i \in 1..Len(numbers) : numbers[i] <= m

\* os.path.basename(path)
Basename(path) == path.name

\* os.path.join(folder_path, f)
PathJoin(dir, f) == [dir |-> dir, name |-> f]

\* list.sort(key=lambda x: x[0]): one pass of a stable insertion, behind every
\* element whose key is not larger
RECURSIVE InsertByKey(_, _)
InsertByKey(sorted, item) ==
    IF sorted = <<>> THEN <<item>>
    ELSE IF Head(sorted)[1] <= item[1] THEN <<Head(sorted)>> \o InsertByKey(Tail(sorted), item)
    ELSE <<item>> \o sorted

\* list.sort(key=lambda x: x[0]), stable
RECURSIVE SortByKey(_)
SortByKey(pairs) ==
    IF pairs = <<>> THEN <<>>
    ELSE InsertByKey(SortByKey(SubSeq(pairs, 1, Len(pairs) - 1)), pairs[Len(pairs)])

\* the (max_num, entry.path) pairs of the root folder's files, in os.scandir order
RECURSIVE LoadVideoPairs(_, _)
LoadVideoPairs(root_folder, entries) ==
    IF entries = <<>> THEN <<>>
    ELSE LET name == Head(entries)
             rest == LoadVideoPairs(root_folder, Tail(entries))
         IN  IF IsVideoName(name) /\ NumbersIn(name) # <<>>
             THEN <<<<MaxOf(NumbersIn(name)), PathJoin(root_folder, name)>>>> \o rest
             ELSE rest

\* _find_and_sort_load_videos: the sorted paths
find_and_sort_load_videos(root_folder, entries) ==
    LET load_videos == SortByKey(LoadVideoPairs(root_folder, entries))
    IN  [i \in 1..Len(load_videos) |-> load_videos[i][2]]

\* ------------------------------------------------------ the media library

(***************************************************************************)
(* The media pool is a sequence of bins; bin 1 is the root bin and 0       *)
(* stands for None.  A bin has a name, the list of its sub-bins and its    *)
(* clips; clips are known by name only, so a clip list is a bag of names.  *)
(***************************************************************************)

\* media_pool.GetRootFolder()
GetRootFolder == 1

\* media_pool.AddSubFolder(parent, name), accepted by the library
AddSubFolder(pool, parent, name) ==
    Append([pool EXCEPT ![parent].subs = Append(@, Len(pool) + 1)],
           [name |-> name, subs |-> <<>>, clips |-> EmptyBag])

\* media_pool.ImportMedia(paths), accepted: one clip per file, named after it, in the root bin
ImportMedia(pool, paths) ==
    [pool EXCEPT ![GetRootFolder].clips = @ (+) SetToBag({Basename(p) : p \in paths})]

\* media_pool.MoveClips([item], bin_folder) for each clip of the bag `items` of the root bin
MoveClips(pool, items, bin_folder) ==
    LET taken == [pool EXCEPT ![GetRootFolder].clips = @ (-) items]
    IN  [taken EXCEPT ![bin_folder].clips = @ (+) items]

\* {clip.GetName() for clip in bin_folder.GetClipList()}
ClipNames(pool, bin_folder) == BagToSet(pool[bin_folder].clips)

\* find_bin_by_name without the recursion: the bin itself, else the first of its direct
\* sub-bins of that name
find_bin_shallow(pool, bin_folder, target_name) ==
    LET subs == pool[bin_folder].subs
        hits == {i \in 1..Len(subs) : pool[subs[i]].name = target_name}
    IN  IF pool[bin_folder].name = target_name THEN bin_folder
        ELSE IF hits = {} THEN 0
        ELSE subs[CHOOSE i \in hits : \A j \in hits : i <= j]

\* find_bin_by_name: the bin itself, else the first hit in its sub-bins, in listing order
RECURSIVE find_bin_by_name(_, _, _)
RECURSIVE FindInSubFolders(_, _, _)
find_bin_by_name(pool, bin_folder, target_name) ==
    IF pool[bin_folder].name = target_name THEN bin_folder
    ELSE FindInSubFolders(pool, pool[bin_folder].subs, target_name)

\* the for-loop of find_bin_by_name over GetSubFolderList()
FindInSubFolders(pool, subfolders, target_name) ==
    IF subfolders = <<>> THEN 0
    ELSE LET found == find_bin_by_name(pool, Head(subfolders), target_name)
         IN  IF found # 0 THEN found
             ELSE FindInSubFolders(pool, Tail(subfolders), target_name)

\* get_missing_files without the set difference: every video file on disk counts as missing
get_missing_files_all(pool, bin_folder, folder) ==
    {f \in folder.files : IsVideoName(f)}

\* get_missing_files: the video files on disk that are no clip of the bin
get_missing_files(pool, bin_folder, folder) ==
    LET existing_clips == ClipNames(pool, bin_folder)
        disk_files     == {f \in folder.files : IsVideoName(f)}
    IN  disk_files \ existing_clips

\* a mutating call of the library API, as the run records it
Call(op, by, sub, bin_folder, names, ok) ==
    [op |-> op, by |-> by, sub |-> sub, bin |-> bin_folder, names |-> names, ok |-> ok]

\* the clips of the root bin whose name is one of `names`: the items that the loop
\* "for item in root_clip.GetClipList()" of _import_vids moves
RootItemsNamed(pool, names) ==
    LET root_clips == pool[GetRootFolder].clips
    IN  [n \in (BagToSet(root_clips) \cap names) |-> root_clips[n]]

\* the MoveClips calls of that loop, recorded as one call; none when no clip matched
MoveCalls(by, sub, bin_folder, items) ==
    IF BagToSet(items) = {} THEN <<>>
    ELSE <<Call("MoveClips", by, sub, bin_folder, BagToSet(items), TRUE)>>

\* _import_vids with the check of ImportMedia's result left out: the clips are moved anyway
import_vids_unchecked(pool, bin_folder, folder, sub, import_ok) ==
    LET missing_files == get_missing_files(pool, bin_folder, folder)
        video_files   == {PathJoin(folder.name, f) : f \in missing_files}
        imported      == IF import_ok THEN ImportMedia(pool, video_files) ELSE pool
        items         == RootItemsNamed(imported, missing_files)
    IN  IF missing_files = {}
        THEN [pool |-> pool, calls |-> <<>>, ret |-> FALSE]
        ELSE [pool |-> MoveClips(imported, items, bin_folder), ret |-> TRUE,
              calls |-> <<Call("ImportMedia", "vids", sub, bin_folder, missing_files, import_ok)>>
                        \o MoveCalls("vids", sub, bin_folder, items)]

\* _import_vids; import_ok is the library's answer to ImportMedia
import_vids(pool, bin_folder, folder, sub, import_ok) ==
    LET missing_files == get_missing_files(pool, bin_folder, folder)
        video_files   == {PathJoin(folder.name, f) : f \in missing_files}
        imported      == ImportMedia(pool, video_files)
        items         == RootItemsNamed(imported, missing_files)
    IN  IF missing_files = {}
        THEN [pool |-> pool, calls |-> <<>>, ret |-> FALSE]
        ELSE IF ~import_ok
        THEN [pool |-> pool, ret |-> FALSE,
              calls |-> <<Call("ImportMedia", "vids", sub, bin_folder, missing_files, FALSE)>>]
        ELSE [pool |-> MoveClips(imported, items, bin_folder), ret |-> TRUE,
              calls |-> <<Call("ImportMedia", "vids", sub, bin_folder, missing_files, TRUE)>>
                        \o MoveCalls("vids", sub, bin_folder, items)]

\* _import_load_video with the look at the bin's clips left out: the video is imported
\* whether or not the bin has it
import_load_video_unchecked(pool, bin_folder, load_number, load_videos, sub, import_ok) ==
    IF load_videos = <<>> \/ load_number > Len(load_videos)
    THEN [pool |-> pool, calls |-> <<>>, ret |-> FALSE]
    ELSE LET video_name == Basename(load_videos[load_number])
             imported   == ImportMedia(pool, {load_videos[load_number]})
         IN  IF ~import_ok
             THEN [pool |-> pool, ret |-> FALSE,
                   calls |-> <<Call("ImportMedia", "load", sub, bin_folder, {video_name}, FALSE)>>]
             ELSE [pool |-> MoveClips(imported, SetToBag({video_name}), bin_folder), ret |-> TRUE,
                   calls |-> <<Call("ImportMedia", "load", sub, bin_folder, {video_name}, TRUE),
                               Call("MoveClips", "load", sub, bin_folder, {video_name}, TRUE)>>]

\* _import_load_video with the first video taken whatever the load number is
import_load_video_first(pool, bin_folder, load_number, load_videos, sub, import_ok) ==
    IF load_videos = <<>> \/ load_number > Len(load_videos)
    THEN [pool |-> pool, calls |-> <<>>, ret |-> FALSE]
    ELSE LET video_name == Basename(load_videos[1])
             imported   == ImportMedia(pool, {load_videos[1]})
         IN  IF video_name \in ClipNames(pool, bin_folder)
             THEN [pool |-> pool, calls |-> <<>>, ret |-> TRUE]
             ELSE IF ~import_ok
             THEN [pool |-> pool, ret |-> FALSE,
                   calls |-> <<Call("ImportMedia", "load", sub, bin_folder, {video_name}, FALSE)>>]
             ELSE [pool |-> MoveClips(imported, SetToBag({video_name}), bin_folder), ret |-> TRUE,
                   calls |-> <<Call("ImportMedia", "load", sub, bin_folder, {video_name}, TRUE),
                               Call("MoveClips", "load", sub, bin_folder, {video_name}, TRUE)>>]

\* _import_load_video; import_ok is the library's answer to ImportMedia
import_load_video(pool, bin_folder, load_number, load_videos, sub, import_ok) ==
    IF load_videos = <<>>
    THEN [pool |-> pool, calls |-> <<>>, ret |-> FALSE]
    ELSE IF load_number > Len(load_videos)
    THEN [pool |-> pool, calls |-> <<>>, ret |-> FALSE]
    ELSE LET video_path == load_videos[load_number]
             video_name == Basename(video_path)
             imported   == ImportMedia(pool, {video_path})
         IN  IF video_name \in ClipNames(pool, bin_folder)
             THEN [pool |-> pool, calls |-> <<>>, ret |-> TRUE]
             ELSE IF ~import_ok
             THEN [pool |-> pool, ret |-> FALSE,
                   calls |-> <<Call("ImportMedia", "load", sub, bin_folder, {video_name}, FALSE)>>]
             ELSE IF video_name \in ClipNames(imported, GetRootFolder)
             THEN [pool |-> MoveClips(imported, SetToBag({video_name}), bin_folder), ret |-> TRUE,
                   calls |-> <<Call("ImportMedia", "load", sub, bin_folder, {video_name}, TRUE),
                               Call("MoveClips", "load", sub, bin_folder, {video_name}, TRUE)>>]
             ELSE [pool |-> imported, ret |-> FALSE,
                   calls |-> <<Call("ImportMedia", "load", sub, bin_folder, {video_name}, TRUE)>>]

\* ------------------------------------------------------ the folders on disk

\* the subfolders a root folder may hold: the name os.scandir reports and the files inside.
\* "A - L1" and "A - L1 " clean to the same label; "D - L0" and "Extras" declare no load.
SubfolderUniverse ==
    { [name |-> <<"A - ", "L", "1">>,      files |-> {<<"a", ".mov">>, <<"notes", ".txt">>}],
      [name |-> <<"A - ", "L", "1", " ">>, files |-> {<<"GOPR", ".MP", "4">>}],
      [name |-> <<"B - ", "L", "1">>,      files |-> {}],
      [name |-> <<"C - ", "L", "2">>,      files |-> {<<"c", ".mov">>}],
      [name |-> <<"D - ", "L", "0">>,      files |-> {<<"d", ".mov">>}],
      [name |-> <<"Extras">>,              files |-> {<<"e", ".mov">>}] }

\* the names a root folder may have: with a date, and without one
RootNameUniverse == {<<"2024-11-22", " Shoot">>, <<"Shoot">>}

\* the sequences without repetition of at most n elements of S
RECURSIVE SeqsNoRep(_, _)
SeqsNoRep(S, n) ==
    IF n = 0 THEN {<<>>}
    ELSE LET shorter == SeqsNoRep(S, n - 1)
             longest == {q \in shorter : Len(q) = n - 1}
         IN  shorter \cup {Append(p[1], p[2]) :
                              p \in {r \in longest \X S : \A i \in 1..Len(r[1]) : r[1][i] # r[2]}}

\* the listings os.scandir may give of the root folder's files: none; one; two whose
\* names hold the same largest number (4, of "mp4"), in both orders; a larger number
\* listed first; three files
RootListings ==
    { <<>>,
      <<<<"vid_", "1", ".mp", "4">>>>,
      <<<<"vid_", "1", ".mp", "4">>, <<"vid_", "2", ".mp", "4">>>>,
      <<<<"vid_", "2", ".mp", "4">>, <<"vid_", "1", ".mp", "4">>>>,
      <<<<"clip_", "10", ".mov">>, <<"vid_", "1", ".mp", "4">>>>,
      <<<<"clip_", "10", ".mov">>, <<"vid_", "2", ".mp", "4">>, <<"vid_", "1", ".mp", "4">>>> }

\* the media pools a run may start from: an empty one; and one with a clip "c.mov" left in
\* the root bin, a bin for "A - L1" that lies inside another bin and holds a clip, and an
\* empty bin for "C - L2" directly below the root
InitialPools ==
    { <<[name |-> <<"Master">>, subs |-> <<>>, clips |-> EmptyBag]>>,
      <<[name |-> <<"Master">>, subs |-> <<2, 4>>, clips |-> SetToBag({<<"c", ".mov">>})],
        [name |-> <<"Archive">>, subs |-> <<3>>, clips |-> EmptyBag],
        [name |-> <<"2024-11-22", " - ", "A - ", "L", "1">>, subs |-> <<>>,
         clips |-> SetToBag({<<"a", ".mov">>})],
        [name |-> <<"2024-11-22", " - ", "C - ", "L", "2">>, subs |-> <<>>,
         clips |-> EmptyBag]>> }

\* ------------------------------------------------------------ the state

VARIABLES
    gui,            \* what the checks before the loop find: the folder entry and the Resolve objects
    disk,           \* the root folder: its name, its files and its subfolders, in os.scandir order
    today,          \* datetime.now().strftime("%Y-%m-%d")
    pool,           \* the media pool of the project
    pc,             \* where create_media_bins stands: "idle", "loop", "done"
    runs,           \* how often create_media_bins has been started
    idx,            \* the position of the for-loop in subfolders
    date_prefix,    \* the local of that name
    load_videos,    \* the local of that name
    created_bins,   \* the local of that name
    updated_bins,   \* the local of that name
    summary,        \* the figures of the summary report, once written
    ret,            \* the value create_media_bins returned
    alert,          \* the messagebox shown, "" if none
    calls,          \* the mutating library calls of this run, in order
    last,           \* what the last iteration of the for-loop did
    prev,           \* what the run before this one did
    refusals        \* how many calls the library has refused so far

vars == <<gui, disk, today, pool, pc, runs, idx, date_prefix, load_videos, created_bins,
          updated_bins, summary, ret, alert, calls, last, prev, refusals>>

NoSummary == [present |-> FALSE, scanned |-> 0, created |-> 0, updated |-> 0, imported |-> 0]
NoLoadCall == [called |-> FALSE, number |-> 0, present |-> FALSE, untouched |-> TRUE, ret |-> FALSE]
NoStep == [sub |-> 0, step |-> "none", bin |-> 0, vids_ret |-> FALSE, load |-> NoLoadCall]
NoRun == [ran |-> FALSE, completed |-> FALSE, faithful |-> FALSE, created |-> 0]

\* the root folders there may be on disk
Disks ==
    [root_name  : RootNameUniverse,
     entries    : RootListings,
     subfolders : SeqsNoRep(SubfolderUniverse, MaxSubs)]

\* no folder there (none chosen, or the path is no directory); no media pool (not connected,
\* or no root bin)
NoDisk == [root_name |-> <<>>, entries |-> <<>>, subfolders |-> <<>>]
NoPool == <<>>

\* the folder entry, the folder and the Resolve objects the application may be started with
Init ==
    /\ \/ /\ gui = [folder_chosen |-> TRUE, is_dir |-> TRUE, has_media_pool |-> TRUE, has_root_bin |-> TRUE]
          /\ disk \in Disks
          /\ pool \in InitialPools
       \/ /\ gui \in {[folder_chosen |-> FALSE, is_dir |-> FALSE, has_media_pool |-> TRUE, has_root_bin |-> TRUE],
                      [folder_chosen |-> TRUE, is_dir |-> FALSE, has_media_pool |-> TRUE, has_root_bin |-> TRUE]}
          /\ disk = NoDisk
          /\ pool \in InitialPools
       \/ /\ gui \in {[folder_chosen |-> TRUE, is_dir |-> TRUE, has_media_pool |-> FALSE, has_root_bin |-> FALSE],
                      [folder_chosen |-> TRUE, is_dir |-> TRUE, has_media_pool |-> TRUE, has_root_bin |-> FALSE]}
          /\ disk \in Disks
          /\ pool = NoPool
    /\ today = "2026-11-05"
    /\ pc = "idle"
    /\ runs = 0
    /\ idx = 0
    /\ date_prefix = ""
    /\ load_videos = <<>>
    /\ created_bins = <<>>
    /\ updated_bins = <<>>
    /\ summary = NoSummary
    /\ ret = <<>>
    /\ alert = ""
    /\ calls = <<>>
    /\ last = NoStep
    /\ prev = NoRun
    /\ refusals = 0

\* ------------------------------------------------- create_media_bins

\* how many calls of a sequence of calls the library refused
RECURSIVE Refused(_)
Refused(cs) == IF cs = <<>> THEN 0 ELSE (IF Head(cs).ok THEN 0 ELSE 1) + Refused(Tail(cs))

\* every library call of the run so far was accepted
AllAccepted == \A i \in 1..Len(calls) : calls[i].ok

\* the user starts create_media_bins: a first time, or again once the run before has returned
Enter ==
    /\ pc \in {"idle", "done"}
    /\ runs < MaxRuns
    /\ runs' = runs + 1
    /\ prev' = IF pc = "done"
               THEN [ran |-> TRUE, completed |-> summary.present, faithful |-> AllAccepted,
                     created |-> Len(created_bins)]
               ELSE prev
    /\ calls' = <<>>
    /\ last' = NoStep
    /\ created_bins' = <<>>
    /\ updated_bins' = <<>>
    /\ summary' = NoSummary
    /\ ret' = <<>>
    /\ UNCHANGED <<gui, disk, today, pool, refusals>>

\* the checks before the loop, in the order of the code; "" when all pass
PreconditionAlert ==
    IF ~gui.folder_chosen THEN "Please select a folder first"
    ELSE IF ~gui.is_dir THEN "Folder not found"
    ELSE IF ~gui.has_media_pool THEN "Not connected to DaVinci Resolve"
    ELSE IF ~gui.has_root_bin THEN "Could not get root bin from Media Pool"
    ELSE ""

\* a check before the loop fails: an alert, and [] is returned
PreconditionFails ==
    /\ Enter
    /\ PreconditionAlert # ""
    /\ alert' = PreconditionAlert
    /\ pc' = "done"
    /\ idx' = 0
    /\ date_prefix' = ""
    /\ load_videos' = <<>>

\* NoSubfolders without the "if not subfolders" return: the run goes on into the loop
NoSubfolders_no_return ==
    /\ Enter
    /\ PreconditionAlert = ""
    /\ disk.subfolders = <<>>
    /\ date_prefix' = date_prefix_of(disk.root_name, today)
    /\ load_videos' = find_and_sort_load_videos(disk.root_name, disk.entries)
    /\ alert' = ""
    /\ pc' = "loop"
    /\ idx' = 1

\* the checks pass, the load videos are scanned, and the root folder has no subfolder
NoSubfolders ==
    /\ Enter
    /\ PreconditionAlert = ""
    /\ disk.subfolders = <<>>
    /\ date_prefix' = date_prefix_of(disk.root_name, today)
    /\ load_videos' = find_and_sort_load_videos(disk.root_name, disk.entries)
    /\ alert' = "No subfolders found in selected directory"
    /\ pc' = "done"
    /\ idx' = 0

\* the checks pass, the load videos are scanned, and the loop over the subfolders begins
BeginLoop ==
    /\ Enter
    /\ PreconditionAlert = ""
    /\ disk.subfolders # <<>>
    /\ date_prefix' = date_prefix_of(disk.root_name, today)
    /\ load_videos' = find_and_sort_load_videos(disk.root_name, disk.entries)
    /\ alert' = ""
    /\ pc' = "loop"
    /\ idx' = 1

\* the locals of one iteration of "for folder in subfolders"
Folder == disk.subfolders[idx]
FolderName == clean_folder_name(Folder.name)
BinName == bin_name_of(date_prefix, FolderName)
LoadNumber == get_load_number_from_bin(BinName)
InLoop == pc = "loop" /\ idx <= Len(disk.subfolders)

\* _import_vids and then _import_load_video on a bin, as create_media_bins calls them one
\* after the other: the pool they leave, their library calls, what _import_vids returned,
\* and of _import_load_video: the load number it got, whether the video at that position
\* was a clip of the bin, whether it left the pool as it was, and what it returned
Reconcile(at_pool, bin_folder, vids_ok, load_ok) ==
    LET v == import_vids(at_pool, bin_folder, Folder, idx, vids_ok)
        l == import_load_video(v.pool, bin_folder, LoadNumber.value, load_videos, idx, load_ok)
    IN  [pool     |-> l.pool,
         calls    |-> v.calls \o l.calls,
         vids_ret |-> v.ret,
         load     |-> [called    |-> TRUE,
                       number    |-> LoadNumber.value,
                       present   |-> /\ LoadNumber.value <= Len(load_videos)
                                     /\ Basename(load_videos[LoadNumber.value])
                                            \in ClipNames(v.pool, bin_folder),
                       untouched |-> l.pool = v.pool,
                       ret       |-> l.ret]]

\* the outcomes of Reconcile over the answers the library may give to the two ImportMedia calls
Reconciled(at_pool, bin_folder) ==
    {Reconcile(at_pool, bin_folder, vids_ok, load_ok) : vids_ok, load_ok \in BOOLEAN}

\* "if not load_number: continue"
SkipSubfolder ==
    /\ InLoop
    /\ NotLoadNumber(LoadNumber)
    /\ idx' = idx + 1
    /\ last' = [NoStep EXCEPT !.sub = idx, !.step = "skipped"]
    /\ UNCHANGED <<gui, disk, today, pool, pc, runs, date_prefix, load_videos, created_bins,
                   updated_bins, summary, ret, alert, calls, prev, refusals>>

\* the bin exists: _import_vids, then _import_load_video, on it
UpdateExistingBin ==
    /\ InLoop
    /\ ~NotLoadNumber(LoadNumber)
    /\ find_bin_by_name(pool, GetRootFolder, BinName) # 0
    /\ \E bin_folder \in {find_bin_by_name(pool, GetRootFolder, BinName)} :
       \E r \in Reconciled(pool, bin_folder) :
          /\ refusals + Refused(r.calls) <= MaxRefusals
          /\ refusals' = refusals + Refused(r.calls)
          /\ pool' = r.pool
          /\ updated_bins' = IF r.vids_ret THEN Append(updated_bins, BinName) ELSE updated_bins
          /\ calls' = calls \o r.calls
          /\ last' = [sub |-> idx, step |-> "existing", bin |-> bin_folder,
                      vids_ret |-> r.vids_ret, load |-> r.load]
    /\ idx' = idx + 1
    /\ UNCHANGED <<gui, disk, today, pc, runs, date_prefix, load_videos, created_bins,
                   summary, ret, alert, prev>>

\* no bin of that name: AddSubFolder returns the new bin; _import_vids, then
\* _import_load_video, on it
CreateNewBin ==
    /\ InLoop
    /\ ~NotLoadNumber(LoadNumber)
    /\ find_bin_by_name(pool, GetRootFolder, BinName) = 0
    /\ \E added \in {AddSubFolder(pool, GetRootFolder, BinName)} :
       \E r \in Reconciled(added, Len(added)) :
          /\ refusals + Refused(r.calls) <= MaxRefusals
          /\ refusals' = refusals + Refused(r.calls)
          /\ pool' = r.pool
          /\ created_bins' = Append(created_bins, BinName)
          /\ calls' = calls \o <<Call("AddSubFolder", "create", idx, Len(added), {BinName}, TRUE)>>
                            \o r.calls
          /\ last' = [sub |-> idx, step |-> "created", bin |-> Len(added),
                      vids_ret |-> r.vids_ret, load |-> r.load]
    /\ idx' = idx + 1
    /\ UNCHANGED <<gui, disk, today, pc, runs, date_prefix, load_videos, updated_bins,
                   summary, ret, alert, prev>>

\* CreateBinFails with created_bins.append(bin_name) done before AddSubFolder's result is looked at
CreateBinFails_counted ==
    /\ InLoop
    /\ ~NotLoadNumber(LoadNumber)
    /\ find_bin_by_name(pool, GetRootFolder, BinName) = 0
    /\ refusals < MaxRefusals
    /\ refusals' = refusals + 1
    /\ \E how \in {"refused", "raised"} :
          last' = [NoStep EXCEPT !.sub = idx, !.step = how]
    /\ calls' = Append(calls, Call("AddSubFolder", "create", idx, 0, {BinName}, FALSE))
    /\ created_bins' = Append(created_bins, BinName)
    /\ idx' = idx + 1
    /\ UNCHANGED <<gui, disk, today, pool, pc, runs, date_prefix, load_videos,
                   updated_bins, summary, ret, alert, prev>>

\* no bin of that name, and AddSubFolder returns None ("refused") or raises ("raised")
CreateBinFails ==
    /\ InLoop
    /\ ~NotLoadNumber(LoadNumber)
    /\ find_bin_by_name(pool, GetRootFolder, BinName) = 0
    /\ refusals < MaxRefusals
    /\ refusals' = refusals + 1
    /\ \E how \in {"refused", "raised"} :
          last' = [NoStep EXCEPT !.sub = idx, !.step = how]
    /\ calls' = Append(calls, Call("AddSubFolder", "create", idx, 0, {BinName}, FALSE))
    /\ idx' = idx + 1
    /\ UNCHANGED <<gui, disk, today, pool, pc, runs, date_prefix, load_videos, created_bins,
                   updated_bins, summary, ret, alert, prev>>

\* after the loop: the summary report, and created_bins + updated_bins is returned
Summarise ==
    /\ pc = "loop"
    /\ idx > Len(disk.subfolders)
    /\ summary' = [present  |-> TRUE,
                   scanned  |-> Len(disk.subfolders),
                   created  |-> Len(created_bins),
                   updated  |-> Len(updated_bins),
                   imported |-> Len(created_bins) + Len(updated_bins)]
    /\ ret' = created_bins \o updated_bins
    /\ pc' = "done"
    /\ UNCHANGED <<gui, disk, today, pool, runs, idx, date_prefix, load_videos, created_bins,
                   updated_bins, alert, calls, last, prev, refusals>>

Next ==
    \/ PreconditionFails
    \/ NoSubfolders
    \/ BeginLoop
    \/ SkipSubfolder
    \/ UpdateExistingBin
    \/ CreateNewBin
    \/ CreateBinFails
    \/ Summarise

Spec == Init /\ [][Next]_vars

\* ------------------------------------------------------------ properties

\* the members of a sequence
Range(q) == {q[i] : i \in 1..Len(q)}

\* the library calls of this run with the given name
CallsOf(op) == {i \in 1..Len(calls) : calls[i].op = op}

\* the calls a step adds to the record of the run
NewCalls == SubSeq(calls', Len(calls) + 1, Len(calls'))

\* the bin name create_media_bins derives for a subfolder of the root folder
GeneratedName(folder) ==
    bin_name_of(date_prefix_of(disk.root_name, today), clean_folder_name(folder.name))

\* the bins of the media pool with the given name
BinsNamed(name) == {b \in 1..Len(pool) : pool[b].name = name}

\* the run has returned after its summary, and the library accepted every call of it
RunAccepted == pc = "done" /\ summary.present /\ AllAccepted

\* C1: a run that follows a completed run in which the library accepted every call creates
\* no bin, issues no ImportMedia, and has empty created and updated lists, with 0 for both
\* in its summary.
C1_SecondRunIdle ==
    (prev.ran /\ prev.completed /\ prev.faithful)
        => /\ CallsOf("AddSubFolder") = {}
           /\ CallsOf("ImportMedia") = {}
           /\ created_bins = <<>>
           /\ updated_bins = <<>>
           /\ summary.present => (summary.created = 0 /\ summary.updated = 0 /\ ret = <<>>)

\* C1 witness: the first run created bins and imported media, and the second run has
\* gone through its loop and written its summary
C1_Witness ==
    /\ prev.ran /\ prev.completed /\ prev.faithful
    /\ prev.created > 0
    /\ \E b \in 1..Len(pool) : b # GetRootFolder /\ ClipNames(pool, b) # {}
    /\ summary.present

\* C2 as stated: after a run in which the library accepted every call, every subfolder
\* of the root folder has a bin of its generated name, load number or not.
C2_EverySubfolderHasBin ==
    RunAccepted => \A i \in 1..Len(disk.subfolders) : BinsNamed(GeneratedName(disk.subfolders[i])) # {}

\* C2 amended: after a run in which the library accepted every call, every subfolder whose
\* bin name ends in L<digits> with a number of at least 1 has a bin of its generated name
\* that holds every video file of the subfolder; a subfolder whose bin name has no load
\* number, or the load number 0, is skipped: no library call is made for it.
C2_LoadSubfoldersHaveBin ==
    RunAccepted =>
        \A i \in 1..Len(disk.subfolders) :
            LET folder == disk.subfolders[i]
                ln     == get_load_number_from_bin(GeneratedName(folder))
            IN  IF ln.matched /\ ln.value >= 1
                THEN \E b \in BinsNamed(GeneratedName(folder)) :
                        {f \in folder.files : IsVideoName(f)} \subseteq ClipNames(pool, b)
                ELSE \A k \in 1..Len(calls) : calls[k].sub # i

\* C2 witness: a run the library accepted in which one subfolder was skipped and another
\* got a new bin with its files
C2_Witness ==
    /\ RunAccepted
    /\ created_bins # <<>>
    /\ \E i \in 1..Len(disk.subfolders) :
          NotLoadNumber(get_load_number_from_bin(GeneratedName(disk.subfolders[i])))
    /\ \E k \in CallsOf("MoveClips") : calls[k].by = "vids"

\* the MoveClips calls of this run that _import_load_video made
LoadMoves == {k \in CallsOf("MoveClips") : calls[k].by = "load"}

\* C3 as stated: no load video is moved into two different bins in one run.
C3_OneBinPerLoadVideo ==
    \A j, k \in LoadMoves : calls[j].names = calls[k].names => calls[j].bin = calls[k].bin

\* C3 amended: a load video is moved only into bins whose name declares the load number
\* that is the video's position in the sorted list; so two bins get the same load video
\* only when they declare the same load number.
C3_LoadVideoByPosition ==
    /\ \A k \in LoadMoves :
          LET n == get_load_number_from_bin(pool[calls[k].bin].name).value
          IN  /\ n \in 1..Len(load_videos)
              /\ calls[k].names = {Basename(load_videos[n])}
    /\ \A j, k \in LoadMoves :
          calls[j].names = calls[k].names
              => get_load_number_from_bin(pool[calls[j].bin].name).value
                   = get_load_number_from_bin(pool[calls[k].bin].name).value

\* C3 witness: the same load video was moved into two different bins, which declare the
\* same load number
C3_Witness ==
    \E j, k \in LoadMoves : calls[j].names = calls[k].names /\ calls[j].bin # calls[k].bin

\* the name of a file without its video extension
Stem(name) ==
    IF EndsWith(Lower(name), <<".mp", "4">>) THEN SubSeq(name, 1, Len(name) - 2)
    ELSE SubSeq(name, 1, Len(name) - 1)

\* the root folder's video files whose name holds a number, and the largest number in
\* each name
NumberedVideos == {f \in Range(disk.entries) : IsVideoName(f) /\ NumbersIn(Stem(f)) # <<>>}
NumberOf(f) == MaxOf(NumbersIn(Stem(f)))

\* the N-th of them in ascending numeric order
NthByNumber(n) ==
    CHOOSE f \in NumberedVideos :
        Cardinality({g \in NumberedVideos : NumberOf(g) < NumberOf(f)}) = n - 1

\* C4: after a run in which the library accepted every call, every bin of a subfolder
\* that declares load number N, 1 <= N <= number of load videos, holds a clip named
\* after the N-th load video in ascending order of the number in the file's name
\* (vid_1.mp4 in the L1 bin, vid_2.mp4 in the L2 bin).
C4_NthVideoInBinN ==
    RunAccepted =>
        \A i \in 1..Len(disk.subfolders) :
            LET name == GeneratedName(disk.subfolders[i])
                ln   == get_load_number_from_bin(name)
            IN  (ln.matched /\ ln.value \in 1..Cardinality(NumberedVideos))
                    => \E b \in BinsNamed(name) : NthByNumber(ln.value) \in ClipNames(pool, b)

\* a step of the loop in which the bulk ImportMedia of _import_vids was refused
VidsImportRefused ==
    /\ pc = "loop"
    /\ \E k \in 1..Len(NewCalls) :
          NewCalls[k].op = "ImportMedia" /\ NewCalls[k].by = "vids" /\ ~NewCalls[k].ok

\* C5 as stated: no MoveClips call at all is made for a subfolder whose bulk ImportMedia
\* was refused.
C5_NoMoveAfterRefusedImport ==
    \A j \in CallsOf("ImportMedia") :
        (calls[j].by = "vids" /\ ~calls[j].ok)
            => \A k \in CallsOf("MoveClips") : calls[k].sub # calls[j].sub

\* C5 amended: when the bulk ImportMedia for a subfolder is refused, _import_vids moves no
\* clip, so none of the subfolder's files reaches the bin; _import_load_video still runs
\* and may import the subfolder's load video and move it into the bin, which is the only
\* change to the bin; every other bin keeps its name and clips, the created and updated
\* lists keep what earlier subfolders put there, and the loop goes on to the next
\* subfolder.
C5_RefusedImportMovesNoFile ==
    [][ VidsImportRefused =>
          LET b      == last'.bin
              before == IF b <= Len(pool) THEN pool[b].clips ELSE EmptyBag
              n      == last'.load.number
          IN  /\ \A k \in 1..Len(NewCalls) : NewCalls[k].op = "MoveClips" => NewCalls[k].by = "load"
              /\ \/ pool'[b].clips = before
                 \/ /\ n \in 1..Len(load_videos)
                    /\ pool'[b].clips = before (+) SetToBag({Basename(load_videos[n])})
                    /\ \E k \in 1..Len(NewCalls) : NewCalls[k].op = "MoveClips"
              /\ \A o \in 1..Len(pool) :
                    o # b => (pool'[o].clips = pool[o].clips /\ pool'[o].name = pool[o].name)
              /\ SubSeq(created_bins', 1, Len(created_bins)) = created_bins
              /\ updated_bins' = updated_bins
              /\ idx' = idx + 1
              /\ pc' = "loop"
      ]_vars

\* C5 witness: the bulk import of a subfolder was refused, and its load video was moved
\* into its bin all the same
C5_Witness ==
    \E j \in CallsOf("ImportMedia") :
        /\ calls[j].by = "vids" /\ ~calls[j].ok
        /\ \E k \in CallsOf("MoveClips") : calls[k].sub = calls[j].sub /\ calls[k].by = "load"

\* a step of the loop in which AddSubFolder returned None or raised
CreationRefused ==
    /\ pc = "loop"
    /\ \E k \in 1..Len(NewCalls) : NewCalls[k].op = "AddSubFolder" /\ ~NewCalls[k].ok

\* a step of the loop, or the summary after it
LoopStep == SkipSubfolder \/ UpdateExistingBin \/ CreateNewBin \/ CreateBinFails \/ Summarise

\* C6: when AddSubFolder returns nothing or raises, the subfolder is skipped: the refused
\* call is the only library call made for it, the media pool and the created and updated
\* lists stay as they are, and the loop stands at the next subfolder; from there it can
\* always take its next step (the next subfolder, or the summary); and the summary of a
\* run with a refused creation counts every subfolder as scanned.
C6_RefusedCreationSkips ==
    /\ [][ CreationRefused =>
             /\ Len(NewCalls) = 1
             /\ pool' = pool
             /\ created_bins' = created_bins
             /\ updated_bins' = updated_bins
             /\ idx' = idx + 1
             /\ pc' = "loop"
         ]_vars
    /\ []((pc = "loop" /\ last.step \in {"refused", "raised"}) => ENABLED LoopStep)
    /\ []((summary.present /\ \E k \in CallsOf("AddSubFolder") : ~calls[k].ok)
            => (summary.scanned = Len(disk.subfolders) /\ idx = Len(disk.subfolders) + 1))

\* C6 witness: a creation was refused for one subfolder, a later subfolder got its bin,
\* and the summary was written
C6_Witness ==
    /\ summary.present
    /\ \E j, k \in CallsOf("AddSubFolder") : ~calls[j].ok /\ calls[k].ok /\ calls[j].sub < calls[k].sub

\* a check before the loop fails
PreconditionFailure ==
    \/ ~gui.folder_chosen
    \/ ~gui.is_dir
    \/ ~gui.has_media_pool
    \/ ~gui.has_root_bin
    \/ disk.subfolders = <<>>

\* C7: if no folder is chosen, the path is no directory, the media pool or the root bin
\* is not there, or the root folder has no subfolder, create_media_bins returns [] at
\* once (the loop is not entered, no summary is written) and makes no mutating library
\* call: the media pool stays as it is.
C7_PreconditionFailureAborts ==
    [][ PreconditionFailure =>
          /\ pc' = "done"
          /\ ret' = <<>>
          /\ calls' = <<>>
          /\ pool' = pool
          /\ ~summary'.present
      ]_vars

\* C7 witness: create_media_bins has returned from a root folder without subfolders, with
\* the Resolve objects there
C7_Witness ==
    /\ runs >= 1
    /\ pc = "done"
    /\ disk.subfolders = <<>>
    /\ gui.folder_chosen /\ gui.is_dir /\ gui.has_media_pool /\ gui.has_root_bin

\* C8: the import figure of the summary is the number of ImportMedia calls of the run.
C8_ImportFigureCountsImports ==
    summary.present => summary.imported = Cardinality(CallsOf("ImportMedia"))

\* C9: _import_load_video leaves the media pool as it is and makes no library call when the
\* list of load videos is empty, when the load number exceeds its length, and when the
\* video at position load_number - 1 is a clip of the bin already; in that last case it
\* returns True.
C9_LoadVideoNoSideEffect ==
    LET load == last.load
    IN  (load.called /\ (load_videos = <<>> \/ load.number > Len(load_videos) \/ load.present))
            => /\ load.untouched
               /\ \A k \in 1..Len(calls) : ~(calls[k].by = "load" /\ calls[k].sub = last.sub)
               /\ load.present => load.ret

\* C9 witness: _import_load_video was called for a bin that has the load video already
C9_Witness ==
    /\ last.load.called
    /\ last.load.present
    /\ last.load.ret

\* C10: no generated bin name is the name of two bins of the media pool; and a bin is
\* created only when no bin of the pool has its name, as a sub-bin of the root bin.
C10_NoDuplicateGeneratedBin ==
    /\ \A i \in 1..Len(disk.subfolders) :
          Cardinality(BinsNamed(GeneratedName(disk.subfolders[i]))) <= 1
    /\ [][ /\ \A i \in 1..Len(disk.subfolders) :
                Cardinality({b \in 1..Len(pool') : pool'[b].name = GeneratedName(disk.subfolders[i])}) <= 1
           /\ \A k \in 1..Len(NewCalls) :
                (pc = "loop" /\ NewCalls[k].op = "AddSubFolder" /\ NewCalls[k].ok)
                    => /\ \A name \in NewCalls[k].names : BinsNamed(name) = {}
                       /\ NewCalls[k].bin \in Range(pool'[GetRootFolder].subs)
                       /\ NewCalls[k].bin \notin 1..Len(pool)
         ]_vars

\* C10 witness: two subfolders clean to the same label; the first got a new bin, and the
\* lookup for the second found that bin
C10_Witness ==
    /\ last.step = "existing"
    /\ pool[last.bin].name \in Range(created_bins)

====
